---- MODULE Spec2Model ----
(***************************************************************************)
(* Model of the analysis pipeline of src/deepseek.py (DeepSeekClient):     *)
(* stage dispatch, the retry loops, the stage-2 model gating and fallback, *)
(* the error classification of _send_request and the decaying topic        *)
(* memory of _update_memory.                                               *)
(***************************************************************************)
EXTENDS Integers, Sequences, FiniteSets, TLC

VARIABLES
    \* configuration read once by DeepSeekClient.__init__
    stage_mode, retry_attempts, fast_model, reasoning_model, single_stage_model,
    \* client fields that live across runs
    last_error_kind,
    related_topics, background_knowledge, topic_counts, topic_total_count,
    \* the run in progress: position, locals of the running method, what it printed
    pc, text, attempt, requests, current_model, msg,
    content_type, recommended_model, suggest_len, answer_model, answer_payload,
    review, console, exc, updates, runs,
    \* a helper called on its own: the log of the calls made
    calls,
    \* threads inside _update_memory at the same time: position and locals of each
    workers,
    \* InputHandler: its fields, the mouse listener thread inside _on_click, the
    \* keyboard listener thread inside _on_key_release, the worker threads
    ctrl_down, first_point, processing, mouse, keyboard, threads

cfgvars == <<stage_mode, retry_attempts, fast_model, reasoning_model, single_stage_model>>
memvars == <<related_topics, background_knowledge, topic_counts, topic_total_count>>
runvars == <<pc, text, attempt, requests, current_model, msg, content_type,
             recommended_model, suggest_len, answer_model, answer_payload,
             review, console, exc, updates, runs>>
inputvars == <<ctrl_down, first_point, processing, mouse, keyboard, threads>>
auxvars == <<calls, workers, inputvars>>
vars == <<cfgvars, last_error_kind, memvars, runvars, auxvars>>

----------------------------------------------------------------------------
(* Bounds of the model *)

\* largest configured request_retry_attempts explored
MaxRetry == 3
\* pipeline runs per behaviour
MaxRuns == 2
\* cap on topic_total_count (the counter itself is unbounded)
MaxTotal == 12
\* longest text handed to the parser on its own
MaxLen == 6
\* direct calls of _send_request per behaviour
MaxCalls == 2

----------------------------------------------------------------------------
(* Values *)

\* Python's None, and a local that was never assigned
None == "None"
Unbound == "<unbound>"

\* topic strings as the model returns them: some need stripping, one is blank
RawTopics == {"t1", "t2", "t3", " t1", "  "}
RawBackgrounds == {"", " b1", "b2", "b3"}

\* str.strip() on the strings of the model
Strip(s) ==
    CASE s = " t1" -> "t1"
      [] s = "  " -> ""
      [] s = " b1" -> "b1"
      [] OTHER -> s

\* the related_topics lists explored: none, one or two topics
TopicLists == {<<>>} \cup {<<a>> : a \in RawTopics}
                    \cup {<<a, b>> : a \in RawTopics, b \in RawTopics}

EmptyDict == [k \in {} |-> 0]
\* dict.get(k, default)
Get(d, k, default) == IF k \in DOMAIN d THEN d[k] ELSE default
\* d[k] = v
Put(d, k, v) == [x \in (DOMAIN d) \cup {k} |-> IF x = k THEN v ELSE d[x]]

RECURSIVE SumCounts(_, _)
SumCounts(d, keys) ==
    IF keys = {} THEN 0
    ELSE LET k == CHOOSE x \in keys : TRUE
         IN  d[k] + SumCounts(d, keys \ {k})

----------------------------------------------------------------------------
(* _update_memory *)

Memory == [background_knowledge |-> background_knowledge,
           related_topics |-> related_topics,
           topic_counts |-> topic_counts,
           topic_total_count |-> topic_total_count]

\* lines 694-697: append the stripped background unless blank or already present
AppendBackgroundDropDedup(bgk, background) ==
    IF Strip(background) # "" THEN Append(bgk, Strip(background)) ELSE bgk

AppendBackground(bgk, background) ==
    IF Strip(background) # "" /\ \A i \in 1..Len(bgk) : bgk[i] # Strip(background)
    THEN Append(bgk, Strip(background))
    ELSE bgk

\* lines 701-705: one iteration of the loop over topics
CountTopicNoTotal(m, t) ==
    IF Strip(t) = "" THEN m
    ELSE [m EXCEPT !.related_topics = @ \cup {Strip(t)},
                   !.topic_counts = Put(@, Strip(t), Get(@, Strip(t), 0) + 1)]

CountTopic(m, t) ==
    IF Strip(t) = "" THEN m
    ELSE [m EXCEPT !.related_topics = @ \cup {Strip(t)},
                   !.topic_counts = Put(@, Strip(t), Get(@, Strip(t), 0) + 1),
                   !.topic_total_count = @ + 1]

\* lines 699-705
RECURSIVE CountTopics(_, _)
CountTopics(m, topics) ==
    IF topics = <<>> THEN m
    ELSE CountTopics(CountTopic(m, Head(topics)), Tail(topics))

\* line 710-711: freq = count / float(total); freq < 0.10
BelowThresholdInclusive(count, total) == 10 * count <= total

BelowThreshold(count, total) == 10 * count < total

\* lines 707-714
EvictNever(m) == m

Evict(m) ==
    IF m.topic_total_count > 0 /\ m.related_topics # {}
    THEN [m EXCEPT !.related_topics =
             {t \in @ : ~BelowThreshold(Get(m.topic_counts, t, 0), m.topic_total_count)}]
    ELSE m

\* the eviction pass run before the topics of the call are counted
update_memory_evict_first(m, topics, background) ==
    CountTopics(
        Evict([m EXCEPT !.background_knowledge = AppendBackground(@, background)]),
        topics)

update_memory(m, topics, background) ==
    Evict(CountTopics(
        [m EXCEPT !.background_knowledge = AppendBackground(@, background)],
        topics))

\* self._update_memory(topics, background) as a step of the running method
DoUpdateMemorySkipped(topics, background) == UNCHANGED memvars

\* the update applied to a store made anew, dropping what earlier runs recorded
DoUpdateMemoryOnFreshStore(topics, background) ==
    LET m == update_memory([background_knowledge |-> <<>>, related_topics |-> {},
                            topic_counts |-> EmptyDict, topic_total_count |-> 0],
                           topics, background)
    IN  /\ background_knowledge' = m.background_knowledge
        /\ related_topics' = m.related_topics
        /\ topic_counts' = m.topic_counts
        /\ topic_total_count' = m.topic_total_count

DoUpdateMemory(topics, background) ==
    LET m == update_memory(Memory, topics, background)
    IN  /\ background_knowledge' = m.background_knowledge
        /\ related_topics' = m.related_topics
        /\ topic_counts' = m.topic_counts
        /\ topic_total_count' = m.topic_total_count

----------------------------------------------------------------------------
(* Configuration and the values that cross the network *)

ChatModel == "deepseek-chat"
ReasonerModel == "deepseek-reasoner"
Models == {ChatModel, ReasonerModel}

\* formal_answer_timeout_seconds (default)
FormalTimeout == 60

\* __init__, lines 60-64: strip, lower, anything but single/multi is multi
RawStageModes == {None, "multi", "single", " Single ", "MULTI", "both"}

NormalizeStageModeKeepCase(raw) ==
    IF raw \in {"single", "multi"} THEN raw ELSE "multi"

NormalizeStageMode(raw) ==
    LET lowered == CASE raw = None -> "multi"
                     [] raw = " Single " -> "single"
                     [] raw = "MULTI" -> "multi"
                     [] OTHER -> raw
    IN  IF lowered \in {"single", "multi"} THEN lowered ELSE "multi"

\* "reason" in model
HasReason(model) == model = ReasonerModel

\* the characters of a text that the parser tells apart: the braces, a JSON
\* value that is no object ("1" is truthy, "0" is falsy), prose ("x") and the
\* three backticks of a code fence ("fence")
Tokens == {"{", "}", "1", "0", "x", "fence"}

\* the texts handed to the parser: up to MaxLen characters
Texts == UNION {[1..n -> Tokens] : n \in 0..MaxLen}

\* the texts json.loads accepts: a scalar, {} or an object with one member
RECURSIVE IsJson(_)
IsJson(s) ==
    \/ s \in {<<"1">>, <<"0">>}
    \/ /\ Len(s) >= 2
       /\ s[1] = "{"
       /\ s[Len(s)] = "}"
       /\ Len(s) = 2 \/ IsJson(SubSeq(s, 2, Len(s) - 1))

\* json.loads(s): the kind of value, or "invalid" when it raises
Loads(s) ==
    IF ~IsJson(s) THEN "invalid"
    ELSE IF s = <<"1">> THEN "nonobject"
    ELSE IF s = <<"0">> THEN "falsy"
    ELSE IF Len(s) = 2 THEN "empty_object"
    ELSE "object"

\* text.find(c) and text.rfind(c), counting from 1; 0 stands for -1
Find(s, c) ==
    IF \E i \in 1..Len(s) : s[i] = c
    THEN CHOOSE i \in 1..Len(s) : s[i] = c /\ \A j \in 1..(i - 1) : s[j] # c
    ELSE 0

RFind(s, c) ==
    IF \E i \in 1..Len(s) : s[i] = c
    THEN CHOOSE i \in 1..Len(s) : s[i] = c /\ \A j \in (i + 1)..Len(s) : s[j] # c
    ELSE 0

\* start != -1 and end != -1 and end > start
HasSpan(s) == Find(s, "{") # 0 /\ RFind(s, "}") # 0 /\ RFind(s, "}") > Find(s, "{")

\* text[start : end + 1]
SpanText(s) == SubSeq(s, Find(s, "{"), RFind(s, "}"))

\* line 728: the fence marker is in the text
HasFence(s) == \E i \in 1..Len(s) : s[i] = "fence"

\* the parser without its last tier
parse_json_fenced_only(t) ==
    IF t = <<>> THEN None
    ELSE IF Loads(t) # "invalid" THEN Loads(t)
    ELSE IF HasFence(t) /\ HasSpan(t) /\ Loads(SpanText(t)) # "invalid"
    THEN Loads(SpanText(t))
    ELSE None

\* lines 717-743; the result is the kind of value returned, None for None
parse_json_strict(t) ==
    IF t = <<>> THEN None
    ELSE IF Loads(t) # "invalid" THEN Loads(t)
    ELSE IF HasFence(t) /\ HasSpan(t) /\ Loads(SpanText(t)) # "invalid"
    THEN Loads(SpanText(t))
    ELSE IF HasSpan(t) /\ Loads(SpanText(t)) # "invalid"
    THEN Loads(SpanText(t))
    ELSE None

\* message contents the pipeline is run on, and the text each one stands for
Contents == {"object", "garbage", "nonobject"}

TextOf(c) ==
    CASE c = "object" -> <<"{", "1", "}">>
      [] c = "nonobject" -> <<"1">>
      [] c = "garbage" -> <<"x">>
      [] OTHER -> <<>>

\* Python truth value of what parse_json_strict returned
Truthy(v) == v \in {"object", "nonobject"}

ErrorKinds == {"timeout", "network", "http", "unknown"}

\* what client.post, raise_for_status or resp.json raises in one call
Raised == {"ReadTimeout", "ConnectError", "HTTPStatusError", "JSONDecodeError",
           "RuntimeError"}

\* isinstance(x, cls) for the classes the except clauses name
IsInstance(x, cls) ==
    CASE cls = "TimeoutException" -> x = "ReadTimeout"
      [] cls = "RequestError" -> x \in {"ReadTimeout", "ConnectError"}
      [] cls = "HTTPStatusError" -> x = "HTTPStatusError"
      [] OTHER -> TRUE

\* lines 786-846: the first except clause that matches
ErrorKindOfRequestErrorFirst(x) ==
    IF IsInstance(x, "RequestError") THEN "network"
    ELSE IF IsInstance(x, "TimeoutException") THEN "timeout"
    ELSE IF IsInstance(x, "HTTPStatusError") THEN "http"
    ELSE "unknown"

ErrorKindOf(x) ==
    IF IsInstance(x, "TimeoutException") THEN "timeout"
    ELSE IF IsInstance(x, "RequestError") THEN "network"
    ELSE IF IsInstance(x, "HTTPStatusError") THEN "http"
    ELSE "unknown"

\* the network call of one request: what it raised, or a 2xx response with a
\* JSON body and the message content in it
Outcomes == [raised : Raised, content : {""}] \cup [raised : {None}, content : Contents]

\* lines 761-846: the try block ends in the return or in one except clause
EventOf(o) ==
    IF o.raised = None THEN [kind |-> "ok", content |-> o.content]
    ELSE [kind |-> ErrorKindOf(o.raised), content |-> ""]

\* what one call of client.post / raise_for_status / resp.json does
Events == {EventOf(o) : o \in Outcomes}

\* lines 765-769
RequestTimeoutIgnoreOverride(model, timeout_override) ==
    IF HasReason(model) THEN 120 ELSE 90

RequestTimeout(model, timeout_override) ==
    IF timeout_override # <<>> THEN timeout_override[1]
    ELSE IF HasReason(model) THEN 120 ELSE 90

\* lines 745-847: the value returned and the kind recorded
send_request(model, timeout_override, e) ==
    [ok |-> e.kind = "ok",
     content |-> e.content,
     last_error_kind |-> IF e.kind = "ok" THEN None ELSE e.kind,
     timeout |-> RequestTimeout(model, timeout_override)]

\* one entry of the request log
Req(stage, model, timeout_override, e) ==
    [stage |-> stage, model |-> model,
     timeout |-> RequestTimeout(model, timeout_override),
     outcome |-> e.kind, content |-> e.content]

\* lines 169-183 and 537-551 (the English table)
ReasonText(kind) ==
    CASE kind = "timeout" -> "timeout"
      [] kind = "network" -> "network error"
      [] kind = "http" -> "HTTP error"
      [] kind = "unknown" -> "unknown error"
      [] OTHER -> "unknown"

\* suggest_thinking_length as JSON gives it: absent, an integer, or a string
Len0(n) == [t |-> "int", v |-> n]
AbsentLen == [t |-> "none", v |-> 0]
NonNumericLen == [t |-> "str", v |-> 0]
UnboundLen == [t |-> "unbound", v |-> 0]
SuggestLens == {AbsentLen, Len0(127), Len0(128), NonNumericLen}

ReviewQuestion == "Q"
ReviewOptions == <<"A", "B">>
ReviewChoiceType == "single"

\* an object with none of the review's keys (final: see SingleReviews)
EmptyReview == [content_type |-> None, recommended_model |-> None,
                suggest_thinking_length |-> AbsentLen,
                related_topics |-> <<>>, background_knowledge |-> "", final |-> None]

\* the fields of a parsed review that the pipeline branches on
FullReviews == [content_type : {"question", "non_question", None},
            recommended_model : {"reasoner", "Reasoner", "chat", None},
            suggest_thinking_length : SuggestLens,
            related_topics : {<<"t1">>, <<" t1", "t2">>},
            background_knowledge : {" b1"},
            final : {None}]

Reviews == FullReviews \cup {EmptyReview}

\* preflight_json / review before any payload was parsed, or when it is no dict
NoReview == [content_type |-> Unbound, recommended_model |-> Unbound,
             suggest_thinking_length |-> UnboundLen,
             related_topics |-> <<>>, background_knowledge |-> Unbound,
             final |-> Unbound]

\* the "final" section of a single-stage payload: absent, or the answer object
Finals == {None, "answer"}

\* a single-stage payload: its "review" section (the schema has no model advice)
\* and, in the field final, its "final" section
SingleReviews ==
    {[rv EXCEPT !.final = f] :
        rv \in {x \in Reviews : /\ x.recommended_model = None
                                /\ x.suggest_thinking_length = AbsentLen},
        f \in Finals}

Ev(e, a) == [ev |-> e, arg |-> a]

NoPayload == [model |-> None, question |-> None, options |-> <<>>, choice_type |-> None]

----------------------------------------------------------------------------
(* The pipeline: send_to_deepseek_pipeline, _send_multi_stage, _send_single_stage *)

\* x or default, for a field that may be absent
Or(x, default) == IF x = None THEN default ELSE x

\* str.lower() on the strings of the model
Lower(x) == IF x = "Reasoner" THEN "reasoner" ELSE x

\* line 235 and line 610
IsQuestionAlways(ct) == TRUE

IsQuestion(ct) == ct = "question"

\* range(1, retry_attempts + 1): another iteration follows iteration a
LoopContinuesOnceMore(a, n) == a <= n

LoopContinues(a, n) == a < n

\* line 404: the answer request failed and its model is not the fast one
NeedsFallbackOnAnyModel(ok, am, fm) == ~ok

NeedsFallback(ok, am, fm) == ~ok /\ am # fm

\* lines 570-573: the failed attempt switches the single-stage model
SwitchToFastOnAnyFailure(cm, fm, kind) == cm # fm /\ kind # None

SwitchToFast(cm, fm, kind) == cm # fm /\ kind = "timeout"

\* lines 339-343: the gate of the reasoning tier
UseReasonerIgnoreLength(rec, slen) == rec = "reasoner"

UseReasoner(rec, slen) ==
    /\ rec = "reasoner"
    /\ slen.t = "int"
    /\ slen.v >= 128

\* the locals of _send_multi_stage that stage 2 reads
SetLocals(ct, rec, slen, am, ap) ==
    /\ content_type' = ct
    /\ recommended_model' = rec
    /\ suggest_len' = slen
    /\ answer_model' = am
    /\ answer_payload' = ap

KeepLocals == UNCHANGED <<content_type, recommended_model, suggest_len,
                          answer_model, answer_payload>>

\* the method returns; line 95 prints the completion line
Return(con) ==
    /\ pc' = "returned"
    /\ console' = Append(con, Ev("pipeline_complete", ""))
    /\ exc' = None

\* an exception leaves the method and send_to_deepseek_pipeline
Raise(con, x) ==
    /\ pc' = "raised"
    /\ console' = con
    /\ exc' = x

\* lines 335-392: choose the answering model and build the stage-2 payload
PrepareStage2(con, ct, question, options, choice_type, rec, slen) ==
    LET use_reasoner == UseReasoner(rec, slen)
        am == IF use_reasoner THEN reasoning_model ELSE fast_model
    IN  /\ SetLocals(ct, rec, slen, am,
                     [model |-> am, question |-> question, options |-> options,
                      choice_type |-> choice_type])
        /\ pc' = "stage2"
        /\ console' = con \o <<Ev("stage2", ""), Ev("answering_model", am)>>
        /\ exc' = None

\* lines 212-227: no review was parsed
Stage1Failed(con, t) ==
    PrepareStage2(Append(con, Ev("preflight_parse_failed", "")),
                  Unbound, t, <<>>, "none", "reasoner", Len0(64))

\* lines 228-333: a truthy value came back from parse_json_strict
Stage1Parsed(con, parsed, rv) ==
    IF parsed # "object"
    THEN \* line 230: preflight_json.get on a value that is no dict
         /\ Raise(Append(con, Ev("preflight_parsed_ok", "")), "AttributeError")
         /\ KeepLocals
         /\ UNCHANGED <<memvars, updates, review>>
    ELSE LET ct == Lower(Or(rv.content_type, "question"))
             con1 == Append(con, Ev("preflight_parsed_ok", ""))
             rec == Lower(Or(rv.recommended_model, "reasoner"))
             slen == IF rv.suggest_thinking_length.t = "none"
                     THEN Len0(64) ELSE rv.suggest_thinking_length
         IN  /\ DoUpdateMemory(rv.related_topics, rv.background_knowledge)
             /\ updates' = updates + 1
             /\ review' = rv
             /\ IF ~IsQuestion(ct)
                THEN /\ Return(Append(con1, Ev("non_question_summary", "")))
                     /\ SetLocals(ct, recommended_model, suggest_len,
                                  answer_model, answer_payload)
                ELSE IF slen.t = "str"
                THEN \* line 320: int(suggest_len) on a non-numeric string
                     /\ Raise(con1, "ValueError")
                     /\ SetLocals(ct, rec, slen, answer_model, answer_payload)
                ELSE PrepareStage2(Append(con1, Ev("preflight_results", "")),
                                   ct, ReviewQuestion, ReviewOptions,
                                   ReviewChoiceType, rec, slen)

\* lines 193-199: the model every preprocessing request names
Stage1ModelReasoning == reasoning_model

Stage1Model == fast_model

\* one iteration of the loop of lines 167-211, then what follows the loop
Stage1Request(e) ==
    /\ pc = "stage1"
    /\ LET r == send_request(Stage1Model, <<>>, e)
           con == IF r.ok THEN console
                  ELSE Append(console, Ev("request_error", r.last_error_kind))
           parsed == IF r.ok THEN parse_json_strict(TextOf(r.content)) ELSE None
       IN  /\ requests' = Append(requests, Req("preprocessing", Stage1Model, <<>>, e))
           /\ last_error_kind' = r.last_error_kind
           /\ UNCHANGED <<text, current_model, msg, runs, cfgvars, auxvars>>
           /\ IF Truthy(parsed)
              THEN /\ attempt' = attempt
                   /\ \E rv \in Reviews :
                        /\ topic_total_count + Len(rv.related_topics) <= MaxTotal
                        /\ Stage1Parsed(con, parsed, rv)
              ELSE IF LoopContinues(attempt, retry_attempts)
              THEN /\ attempt' = attempt + 1
                   /\ pc' = "stage1"
                   /\ console' = Append(con, Ev("retrying", ReasonText(r.last_error_kind)))
                   /\ exc' = None
                   /\ KeepLocals
                   /\ UNCHANGED <<memvars, updates, review>>
              ELSE /\ attempt' = attempt
                   /\ Stage1Failed(con, text)
                   /\ UNCHANGED <<memvars, updates, review>>

\* lines 429-475: the answer step after its last request
AnswerReceived(con, result) ==
    IF ~result.ok
    THEN \* lines 429-430
         Return(con)
    ELSE IF ~Truthy(parse_json_strict(TextOf(result.content)))
    THEN Return(Append(con, Ev("answer_parse_failed", result.content)))
    ELSE Return(Append(con, Ev("formal_answer", result.content)))

\* lines 394-475: the stage-2 request, and the switch to the fallback
Stage2Request(e) ==
    /\ pc = "stage2"
    /\ LET r == send_request(answer_model, <<FormalTimeout>>, e)
           con == IF r.ok THEN console
                  ELSE Append(console, Ev("request_error", r.last_error_kind))
       IN  /\ requests' = Append(requests,
                  Req("formal answering", answer_payload.model, <<FormalTimeout>>, e))
           /\ last_error_kind' = r.last_error_kind
           /\ IF NeedsFallback(r.ok, answer_model, fast_model)
              THEN \* lines 404-419
                   /\ pc' = "fallback"
                   /\ console' = Append(con, Ev("error_timeout", "Formal"))
                   /\ exc' = None
                   /\ answer_payload' = [answer_payload EXCEPT !.model = fast_model]
              ELSE /\ AnswerReceived(con, r)
                   /\ UNCHANGED answer_payload
    /\ UNCHANGED <<text, attempt, current_model, msg, runs, cfgvars, memvars, updates,
                   review, content_type, recommended_model, suggest_len, answer_model,
                   auxvars>>

\* lines 420-475: the fallback request on the fast model
FallbackRequest(e) ==
    /\ pc = "fallback"
    /\ LET r == send_request(fast_model, <<FormalTimeout>>, e)
           con == IF r.ok THEN console
                  ELSE Append(console, Ev("request_error", r.last_error_kind))
       IN  /\ requests' = Append(requests,
                  Req("formal answering (fallback)", answer_payload.model,
                      <<FormalTimeout>>, e))
           /\ last_error_kind' = r.last_error_kind
           /\ AnswerReceived(con, r)
    /\ UNCHANGED <<text, attempt, current_model, msg, runs, cfgvars, memvars, updates,
                   review, auxvars>>
    /\ KeepLocals

\* lines 587-595: the single-stage loop ended without a parsed payload
SingleFailed(con, m) ==
    IF m = Unbound
    THEN \* line 590 reads msg, which no iteration assigned
         Raise(con, "UnboundLocalError")
    ELSE Return(Append(con, Ev("answer_parse_failed", m)))

\* lines 597-689: a truthy value came back from parse_json_strict
SingleParsed(con, parsed, rv) ==
    IF parsed # "object"
    THEN \* line 598: parsed.get on a value that is no dict
         /\ Raise(con, "AttributeError")
         /\ KeepLocals
         /\ UNCHANGED <<memvars, updates, review>>
    ELSE LET ct == Lower(Or(rv.content_type, "question"))
         IN  /\ DoUpdateMemory(rv.related_topics, rv.background_knowledge)
             /\ updates' = updates + 1
             /\ review' = rv
             /\ SetLocals(ct, recommended_model, suggest_len, answer_model, answer_payload)
             /\ IF ~IsQuestion(ct)
                THEN Return(Append(con, Ev("non_question_summary", "")))
                ELSE \* lines 680-689: final = parsed.get("final") or {}
                     Return(con \o <<Ev("preflight_results", ""),
                                     Ev("formal_answer", Or(rv.final, "{}"))>>)

\* one iteration of the loop of lines 535-586, then what follows the loop
SingleRequest(e) ==
    /\ pc = "single"
    /\ LET r == send_request(current_model, <<FormalTimeout>>, e)
           con == IF r.ok THEN console
                  ELSE Append(console, Ev("request_error", r.last_error_kind))
           parsed == IF r.ok THEN parse_json_strict(TextOf(r.content)) ELSE None
           m == IF r.ok THEN r.content ELSE msg
       IN  /\ requests' = Append(requests,
                  Req("single-stage", current_model, <<FormalTimeout>>, e))
           /\ last_error_kind' = r.last_error_kind
           /\ msg' = m
           /\ current_model' =
                  IF ~r.ok /\ SwitchToFast(current_model, fast_model, r.last_error_kind)
                  THEN fast_model ELSE current_model
           /\ UNCHANGED <<text, runs, cfgvars, auxvars>>
           /\ IF Truthy(parsed)
              THEN /\ attempt' = attempt
                   /\ \E rv \in SingleReviews :
                        /\ topic_total_count + Len(rv.related_topics) <= MaxTotal
                        /\ SingleParsed(con, parsed, rv)
              ELSE IF LoopContinues(attempt, retry_attempts)
              THEN /\ attempt' = attempt + 1
                   /\ pc' = "single"
                   /\ console' = Append(con, Ev("retrying", ReasonText(r.last_error_kind)))
                   /\ exc' = None
                   /\ KeepLocals
                   /\ UNCHANGED <<memvars, updates, review>>
              ELSE /\ attempt' = attempt
                   /\ SingleFailed(con, m)
                   /\ KeepLocals
                   /\ UNCHANGED <<memvars, updates, review>>

InputTexts == {"recognized text"}

\* lines 88-95 and the code of either method up to its first request
BeginRun(t) ==
    /\ pc \in {"idle", "returned", "raised"}
    /\ runs < MaxRuns
    /\ runs' = runs + 1
    /\ text' = t
    /\ requests' = <<>>
    /\ attempt' = 1
    /\ msg' = Unbound
    /\ updates' = 0
    /\ review' = NoReview
    /\ UNCHANGED <<cfgvars, last_error_kind, memvars>>
    /\ LET con == <<Ev("pipeline_start", ""), Ev("stage1", "")>>
       IN  IF stage_mode = "single"
           THEN /\ current_model' = single_stage_model
                /\ SetLocals(Unbound, Unbound, UnboundLen, Unbound, NoPayload)
                /\ IF retry_attempts >= 1
                   THEN /\ pc' = "single"
                        /\ console' = con
                        /\ exc' = None
                   ELSE SingleFailed(con, Unbound)
           ELSE /\ current_model' = Unbound
                /\ IF retry_attempts >= 1
                   THEN /\ pc' = "stage1"
                        /\ console' = con
                        /\ exc' = None
                        /\ SetLocals(Unbound, Unbound, UnboundLen, Unbound, NoPayload)
                   ELSE Stage1Failed(con, t)

\* send_to_deepseek_pipeline(t) called on its own
StartRun(t) == BeginRun(t) /\ UNCHANGED auxvars

\* self._update_memory called on its own
MemUpdate(topics, background) ==
    /\ pc = "memory"
    /\ topic_total_count + Len(topics) <= MaxTotal
    /\ DoUpdateMemory(topics, background)
    /\ UNCHANGED <<cfgvars, last_error_kind, runvars, auxvars>>

\* the arguments of one call of _update_memory
UpdateCall(topics, background) == [topics |-> topics, background |-> background]

\* self._update_memory called once more with the arguments of the first call
RepeatUpdate(topics, background) ==
    /\ pc = "repeat"
    /\ Len(calls) < MaxTotal
    /\ topic_total_count + Len(topics) <= MaxTotal
    /\ calls # <<>> => calls[1] = UpdateCall(topics, background)
    /\ calls' = Append(calls, UpdateCall(topics, background))
    /\ DoUpdateMemory(topics, background)
    /\ UNCHANGED <<cfgvars, last_error_kind, runvars, workers, inputvars>>

\* self.parse_json_strict(text) called on its own, on any text
ParseCall ==
    /\ pc = "parse"
    /\ calls = <<>>
    /\ \E t \in Texts : calls' = <<[text |-> t, ret |-> parse_json_strict(t)]>>
    /\ UNCHANGED <<cfgvars, last_error_kind, memvars, runvars, workers, inputvars>>

\* self._send_request(...) called on its own
SendCall(model, timeout_override, o) ==
    /\ pc = "request"
    /\ Len(calls) < MaxCalls
    /\ LET r == send_request(model, timeout_override, EventOf(o))
       IN  /\ calls' = Append(calls,
                  [model |-> model, timeout_override |-> timeout_override,
                   outcome |-> o, timeout |-> r.timeout,
                   ret |-> [ok |-> r.ok, content |-> r.content],
                   last_error_kind |-> r.last_error_kind])
           /\ requests' = Append(requests,
                  Req("direct", model, timeout_override, EventOf(o)))
           /\ last_error_kind' = r.last_error_kind
    /\ UNCHANGED <<cfgvars, memvars, workers, inputvars, pc, text, attempt, current_model, msg,
                   content_type, recommended_model, suggest_len, answer_model,
                   answer_payload, review, console, exc, updates, runs>>

----------------------------------------------------------------------------
(* _update_memory entered by more than one thread *)

\* the threads that run a pipeline on the same client
Workers == {"w1", "w2"}

\* a thread outside _update_memory, and the locals it will use inside
IdleWorker == [pc |-> "idle", topics |-> <<>>, background |-> "", i |-> 0,
               fresh |-> FALSE, count |-> 0, total |-> 0]

NoWorkers == [w \in Workers |-> IdleWorker]

\* the topics and the background of the reviews the concurrent runs parsed
ConcurrentTopics == {<<"t1">>, <<"  ", "t2">>}
ConcurrentBackgrounds == {" b1", "b2"}

\* the locals of thread w change; the other threads and all that is outside
\* the memory stay as they are
Move(w, rec) ==
    /\ workers' = [workers EXCEPT ![w] = rec]
    /\ UNCHANGED <<cfgvars, last_error_kind, runvars, calls, inputvars>>

\* the topic the loop of line 700 is at
Topic(w) == Strip(workers[w].topics[workers[w].i])

\* the run of thread w reaches self._update_memory(topics, background)
Enter(w, topics, background) ==
    /\ workers[w].pc = "idle"
    /\ Move(w, [workers[w] EXCEPT !.pc = "check", !.topics = topics,
                                  !.background = background, !.i = 1])
    /\ UNCHANGED memvars

\* lines 694-696: the test `bg not in self.background_knowledge`
CheckBackground(w) ==
    /\ workers[w].pc = "check"
    /\ Move(w, [workers[w] EXCEPT
                  !.pc = "append",
                  !.fresh = /\ Strip(workers[w].background) # ""
                            /\ \A i \in 1..Len(background_knowledge) :
                                  background_knowledge[i] # Strip(workers[w].background)])
    /\ UNCHANGED memvars

\* line 697: the append that the test allowed
AppendChecked(w) ==
    /\ workers[w].pc = "append"
    /\ background_knowledge' =
           IF workers[w].fresh
           THEN Append(background_knowledge, Strip(workers[w].background))
           ELSE background_knowledge
    /\ Move(w, [workers[w] EXCEPT !.pc = "topic"])
    /\ UNCHANGED <<related_topics, topic_counts, topic_total_count>>

\* lines 700-704: the next topic, the add to the set, the read of its count
ReadCount(w) ==
    /\ workers[w].pc = "topic"
    /\ IF workers[w].i > Len(workers[w].topics)
       THEN /\ Move(w, [workers[w] EXCEPT !.pc = "evict"])
            /\ UNCHANGED memvars
       ELSE IF Topic(w) = ""
       THEN /\ Move(w, [workers[w] EXCEPT !.i = @ + 1])
            /\ UNCHANGED memvars
       ELSE /\ related_topics' = related_topics \cup {Topic(w)}
            /\ Move(w, [workers[w] EXCEPT !.pc = "count",
                                          !.count = Get(topic_counts, Topic(w), 0)])
            /\ UNCHANGED <<background_knowledge, topic_counts, topic_total_count>>

\* line 704: the store of the count read; line 705: the read of the total
StoreCount(w) ==
    /\ workers[w].pc = "count"
    /\ topic_counts' = Put(topic_counts, Topic(w), workers[w].count + 1)
    /\ Move(w, [workers[w] EXCEPT !.pc = "total", !.total = topic_total_count])
    /\ UNCHANGED <<background_knowledge, related_topics, topic_total_count>>

\* line 705: the store of the total read
StoreTotal(w) ==
    /\ workers[w].pc = "total"
    /\ topic_total_count' = workers[w].total + 1
    /\ Move(w, [workers[w] EXCEPT !.pc = "topic", !.i = @ + 1])
    /\ UNCHANGED <<background_knowledge, related_topics, topic_counts>>

\* lines 707-714, then the return
EvictAndReturn(w) ==
    /\ workers[w].pc = "evict"
    /\ related_topics' = Evict(Memory).related_topics
    /\ Move(w, [workers[w] EXCEPT !.pc = "done"])
    /\ UNCHANGED <<background_knowledge, topic_counts, topic_total_count>>

----------------------------------------------------------------------------
(* Specifications *)

----------------------------------------------------------------------------
(* src/input_handler.py: InputHandler *)

\* the screen points of the clicks, and their coordinates
Points == {"p1", "p2", "p3", "p4"}

XY(p) ==
    CASE p = "p1" -> <<0, 0>>
      [] p = "p2" -> <<5, 5>>
      [] p = "p3" -> <<4, 9>>
      [] p = "p4" -> <<9, 4>>

\* the mouse listener thread outside _on_click
IdleMouse == [pc |-> "idle", point |-> None, first_point |-> Unbound]

\* no worker thread under this name
NoThread == [pc |-> "none", first_point |-> None, second_point |-> None,
             outcome |-> None]

\* line 50: the test of the single-flight flag
IsProcessingNever(flag) == FALSE

IsProcessing(flag) == flag

\* lines 64-67: the flag after the callback ended, whatever its outcome
FlagKeptWhenRaised(flag, outcome) == IF outcome = "raised" THEN flag ELSE FALSE

FlagAfterCallback(flag, outcome) == FALSE

\* what a step of the input handler leaves alone
InputFrame == UNCHANGED <<cfgvars, last_error_kind, memvars, runvars, calls, workers>>

\* _on_key_press, lines 26-31, for a Ctrl key
KeyPress ==
    /\ pc = "input"
    /\ keyboard = "idle"
    /\ ctrl_down' = TRUE
    /\ UNCHANGED <<first_point, processing, mouse, keyboard, threads>>
    /\ InputFrame

\* _on_key_release, line 36, for a Ctrl key
KeyRelease ==
    /\ pc = "input"
    /\ keyboard = "idle"
    /\ ctrl_down' = FALSE
    /\ keyboard' = "reset"
    /\ UNCHANGED <<first_point, processing, mouse, threads>>
    /\ InputFrame

\* _on_key_release, line 38
KeyReleaseReset ==
    /\ pc = "input"
    /\ keyboard = "reset"
    /\ first_point' = None
    /\ keyboard' = "idle"
    /\ UNCHANGED <<ctrl_down, processing, mouse, threads>>
    /\ InputFrame

\* the mouse thread goes on to position p of _on_click, or returns
MouseTo(p) == mouse' = [mouse EXCEPT !.pc = p]
MouseReturns == mouse' = IdleMouse

\* _on_click entered with a pressed left button (lines 44-47 return otherwise)
Click(p) ==
    /\ pc = "input"
    /\ mouse.pc = "idle"
    /\ mouse' = [pc |-> "ctrl", point |-> p, first_point |-> Unbound]
    /\ UNCHANGED <<ctrl_down, first_point, processing, keyboard, threads>>
    /\ InputFrame

\* lines 48-49
CheckCtrl ==
    /\ mouse.pc = "ctrl"
    /\ IF ctrl_down THEN MouseTo("processing") ELSE MouseReturns
    /\ UNCHANGED <<ctrl_down, first_point, processing, keyboard, threads>>
    /\ InputFrame

\* lines 50-51
CheckProcessing ==
    /\ mouse.pc = "processing"
    /\ IF IsProcessing(processing) THEN MouseReturns ELSE MouseTo("first")
    /\ UNCHANGED <<ctrl_down, first_point, processing, keyboard, threads>>
    /\ InputFrame

\* line 53
CheckFirst ==
    /\ mouse.pc = "first"
    /\ IF first_point = None THEN MouseTo("store") ELSE MouseTo("read")
    /\ UNCHANGED <<ctrl_down, first_point, processing, keyboard, threads>>
    /\ InputFrame

\* line 55
StoreFirst ==
    /\ mouse.pc = "store"
    /\ first_point' = mouse.point
    /\ MouseReturns
    /\ UNCHANGED <<ctrl_down, processing, keyboard, threads>>
    /\ InputFrame

\* lines 58-60: the second read of self.first_point, then its reset
ReadFirst ==
    /\ mouse.pc = "read"
    /\ mouse' = [mouse EXCEPT !.pc = "flag", !.first_point = first_point]
    /\ first_point' = None
    /\ UNCHANGED <<ctrl_down, processing, keyboard, threads>>
    /\ InputFrame

\* line 61
SetProcessing ==
    /\ mouse.pc = "flag"
    /\ processing' = TRUE
    /\ MouseTo("start")
    /\ UNCHANGED <<ctrl_down, first_point, keyboard, threads>>
    /\ InputFrame

\* lines 63-69: the worker thread is started with the two points
StartWorker(w) ==
    /\ mouse.pc = "start"
    /\ threads[w].pc = "none"
    /\ threads' = [threads EXCEPT ![w] =
                      [pc |-> "started", first_point |-> mouse.first_point,
                       second_point |-> mouse.point, outcome |-> None]]
    /\ MouseReturns
    /\ UNCHANGED <<ctrl_down, first_point, processing, keyboard>>
    /\ InputFrame

\* line 65: the worker calls selection_callback(first_point, second_point)
WorkerCalls(w) ==
    /\ threads[w].pc = "started"
    /\ threads' = [threads EXCEPT ![w].pc = "callback"]
    /\ UNCHANGED <<ctrl_down, first_point, processing, mouse, keyboard>>
    /\ InputFrame

\* how process_selection can end: src/main.py line 67 unpacks both points and
\* raises TypeError on None; the analysis pipeline may raise as well
CallbackOutcomes(first, second) ==
    IF first = None \/ second = None THEN {"raised"} ELSE {"returned", "raised"}

\* line 65: the callback ends
CallbackEnds(w) ==
    /\ threads[w].pc = "callback"
    /\ \E o \in CallbackOutcomes(threads[w].first_point, threads[w].second_point) :
         threads' = [threads EXCEPT ![w].pc = "finally", ![w].outcome = o]
    /\ UNCHANGED <<ctrl_down, first_point, processing, mouse, keyboard>>
    /\ InputFrame

\* lines 66-67, and the thread ends
WorkerFinally(w) ==
    /\ threads[w].pc = "finally"
    /\ processing' = FlagAfterCallback(processing, threads[w].outcome)
    /\ threads' = [threads EXCEPT ![w] = NoThread]
    /\ UNCHANGED <<ctrl_down, first_point, mouse, keyboard>>
    /\ InputFrame

----------------------------------------------------------------------------
(* src/main.py: OCRAssistant.process_selection *)

Abs(n) == IF n < 0 THEN 0 - n ELSE n

\* what OCRProcessor.process_region returns: "" when the capture or the OCR
\* failed or found nothing, else the text recognized, stripped by ocr_image
OcrTexts == {"", "recognized text"}

\* the pairs of clicks explored: 5 by 5 in either order, 4 by 9, 9 by 4, 1 by 4
Selections == {<<"p1", "p2">>, <<"p2", "p1">>, <<"p1", "p3">>, <<"p1", "p4">>,
               <<"p2", "p3">>}

\* line 74
TooSmallWidthOnly(width, height) == width < 5

TooSmall(width, height) == width < 5 \/ height < 5

\* process_selection(start, end) up to the first request of the pipeline; calls
\* keeps the arguments of the last selection and the text OCR gave for it
ProcessSelection(start, end, ocr) ==
    LET width == Abs(XY(end)[1] - XY(start)[1])
        height == Abs(XY(end)[2] - XY(start)[2])
    IN  /\ pc \in {"idle", "returned", "raised"}
        /\ UNCHANGED <<workers, inputvars>>
        /\ IF TooSmall(width, height)
           THEN \* lines 74-76
                /\ calls' = <<[start |-> start, end |-> end, text |-> None]>>
                /\ UNCHANGED <<cfgvars, last_error_kind, memvars, runvars>>
           ELSE IF Strip(ocr) = ""
           THEN \* lines 81-85
                /\ calls' = <<[start |-> start, end |-> end, text |-> ocr]>>
                /\ UNCHANGED <<cfgvars, last_error_kind, memvars, runvars>>
           ELSE \* lines 88-89
                /\ calls' = <<[start |-> start, end |-> end, text |-> ocr]>>
                /\ BeginRun(ocr)

\* the client after __init__ (lines 23-85), for the configurations explored
InitFields ==
    /\ retry_attempts \in 0..MaxRetry
    /\ reasoning_model \in (IF stage_mode = "multi" THEN Models ELSE {ReasonerModel})
    /\ fast_model \in (IF stage_mode = "multi" /\ reasoning_model = ReasonerModel
                       THEN Models ELSE {ChatModel})
    /\ single_stage_model \in (IF stage_mode = "single" THEN Models ELSE {ChatModel})
    /\ last_error_kind = None
    /\ related_topics = {}
    /\ background_knowledge = <<>>
    /\ topic_counts = EmptyDict
    /\ topic_total_count = 0
    /\ text = None
    /\ attempt = 1
    /\ requests = <<>>
    /\ current_model = Unbound
    /\ msg = Unbound
    /\ content_type = Unbound
    /\ recommended_model = Unbound
    /\ suggest_len = UnboundLen
    /\ answer_model = Unbound
    /\ answer_payload = NoPayload
    /\ review = NoReview
    /\ console = <<>>
    /\ exc = None
    /\ updates = 0
    /\ workers = NoWorkers
    /\ ctrl_down = FALSE
    /\ first_point = None
    /\ processing = FALSE
    /\ mouse = IdleMouse
    /\ keyboard = "idle"
    /\ threads = [w \in Workers |-> NoThread]

InitClient ==
    /\ \E raw \in RawStageModes : stage_mode = NormalizeStageMode(raw)
    /\ InitFields
    /\ calls = <<>>
    /\ runs = 0

Init == InitClient /\ pc = "idle"

Next ==
    \/ \E t \in InputTexts : StartRun(t)
    \/ \E e \in Events : Stage1Request(e)
    \/ \E e \in Events : Stage2Request(e)
    \/ \E e \in Events : FallbackRequest(e)
    \/ \E e \in Events : SingleRequest(e)

Spec == Init /\ [][Next]_vars

\* the pipeline of a client whose configuration is kept for reference: calls
\* holds the config dict that __init__ received
InitConfig ==
    /\ \E raw \in RawStageModes :
         /\ stage_mode = NormalizeStageMode(raw)
         /\ calls = <<[analysis_stage_mode |-> raw]>>
    /\ InitFields
    /\ retry_attempts = 1
    /\ pc = "idle"
    /\ runs = 0

SpecConfig == InitConfig /\ [][Next]_vars

\* one blocking network call of the run returns and the method goes on
RequestReturns ==
    \/ \E e \in Events : Stage1Request(e)
    \/ \E e \in Events : Stage2Request(e)
    \/ \E e \in Events : FallbackRequest(e)
    \/ \E e \in Events : SingleRequest(e)

\* a client on the last of the runs explored, its memory still empty
InitLastRun ==
    /\ \E raw \in RawStageModes : stage_mode = NormalizeStageMode(raw)
    /\ InitFields
    /\ calls = <<>>
    /\ pc = "idle"
    /\ runs = MaxRuns - 1

\* one pipeline run in which every network call returns
SpecReturns == InitLastRun /\ [][Next]_vars /\ WF_vars(RequestReturns)

\* the input handler after start_listeners, the callback left abstract
InitInput ==
    /\ InitClient
    /\ pc = "input"
    /\ stage_mode = "multi"
    /\ retry_attempts = 1
    /\ reasoning_model = ReasonerModel
    /\ fast_model = ChatModel

MouseStep ==
    \/ CheckCtrl
    \/ CheckProcessing
    \/ CheckFirst
    \/ StoreFirst
    \/ ReadFirst
    \/ SetProcessing
    \/ \E w \in Workers : StartWorker(w)

WorkerStep ==
    \/ \E w \in Workers : WorkerCalls(w)
    \/ \E w \in Workers : CallbackEnds(w)
    \/ \E w \in Workers : WorkerFinally(w)

NextInput ==
    \/ KeyPress
    \/ KeyRelease
    \/ KeyReleaseReset
    \/ \E p \in Points : Click(p)
    \/ CheckCtrl
    \/ CheckProcessing
    \/ CheckFirst
    \/ StoreFirst
    \/ ReadFirst
    \/ SetProcessing
    \/ \E w \in Workers : StartWorker(w)
    \/ \E w \in Workers : WorkerCalls(w)
    \/ \E w \in Workers : CallbackEnds(w)
    \/ \E w \in Workers : WorkerFinally(w)

SpecInput == InitInput /\ [][NextInput]_vars

\* the listener threads and the workers are scheduled, and a callback ends
SpecInputFair ==
    InitInput /\ [][NextInput]_vars /\ WF_vars(KeyReleaseReset)
              /\ WF_vars(MouseStep) /\ WF_vars(WorkerStep)

\* selections handed to process_selection one after the other
InitSelection ==
    /\ InitClient
    /\ pc = "idle"
    /\ retry_attempts = 1
    /\ reasoning_model = ReasonerModel
    /\ fast_model = ChatModel
    /\ single_stage_model = ChatModel

NextSelection ==
    \/ \E sel \in Selections, ocr \in OcrTexts : ProcessSelection(sel[1], sel[2], ocr)
    \/ \E e \in Events : Stage1Request(e)
    \/ \E e \in Events : Stage2Request(e)
    \/ \E e \in Events : FallbackRequest(e)
    \/ \E e \in Events : SingleRequest(e)

SpecSelection == InitSelection /\ [][NextSelection]_vars

\* the memory store driven directly by its update operation
InitMem ==
    /\ InitClient
    /\ pc = "memory"
    /\ stage_mode = "multi"
    /\ retry_attempts = 1
    /\ reasoning_model = ReasonerModel
    /\ fast_model = ChatModel

NextMem == \E topics \in TopicLists, background \in RawBackgrounds :
               MemUpdate(topics, background)

SpecMem == InitMem /\ [][NextMem]_vars

\* updates of reviews that name at most one topic and no background
OneTopicLists == {<<>>} \cup {<<a>> : a \in RawTopics}

NextMemOne == \E topics \in OneTopicLists : MemUpdate(topics, "")

\* an update that records a mention (lines 698-705)
RecordMention ==
    \E topics \in OneTopicLists :
        /\ MemUpdate(topics, "")
        /\ topic_total_count' > topic_total_count

\* the memory store of a client whose runs keep recording mentions, for as long
\* as the total stays within MaxTotal
SpecMemFair == InitMem /\ [][NextMemOne]_vars /\ WF_vars(RecordMention)

\* the memory store driven by one and the same update, again and again
InitRepeat ==
    /\ InitClient
    /\ pc = "repeat"
    /\ stage_mode = "multi"
    /\ retry_attempts = 1
    /\ reasoning_model = ReasonerModel
    /\ fast_model = ChatModel

NextRepeat == \E topics \in TopicLists, background \in RawBackgrounds :
                  RepeatUpdate(topics, background)

SpecRepeat == InitRepeat /\ [][NextRepeat]_vars

\* the parser applied to one text
InitParse ==
    /\ InitClient
    /\ pc = "parse"
    /\ stage_mode = "multi"
    /\ retry_attempts = 1
    /\ reasoning_model = ReasonerModel
    /\ fast_model = ChatModel

NextParse == ParseCall

SpecParse == InitParse /\ [][NextParse]_vars

\* two runs on one client, each inside _update_memory once
InitConcurrent ==
    /\ InitClient
    /\ pc = "concurrent"
    /\ stage_mode = "multi"
    /\ retry_attempts = 1
    /\ reasoning_model = ReasonerModel
    /\ fast_model = ChatModel

NextConcurrent ==
    \E w \in Workers :
        \/ \E topics \in ConcurrentTopics, background \in ConcurrentBackgrounds :
              Enter(w, topics, background)
        \/ CheckBackground(w)
        \/ AppendChecked(w)
        \/ ReadCount(w)
        \/ StoreCount(w)
        \/ StoreTotal(w)
        \/ EvictAndReturn(w)

SpecConcurrent == InitConcurrent /\ [][NextConcurrent]_vars

\* _send_request called a few times in a row
InitRequest ==
    /\ InitClient
    /\ pc = "request"
    /\ stage_mode = "multi"
    /\ retry_attempts = 1
    /\ reasoning_model = ReasonerModel
    /\ fast_model = ChatModel

NextRequest == \E model \in Models, timeout_override \in {<<>>, <<FormalTimeout>>},
                  o \in Outcomes : SendCall(model, timeout_override, o)

SpecRequest == InitRequest /\ [][NextRequest]_vars

----------------------------------------------------------------------------
(* Vocabulary of the properties *)

Done == pc \in {"returned", "raised"}

StageReqs(stages) == SelectSeq(requests, LAMBDA r : r.stage \in stages)
S1Reqs == StageReqs({"preprocessing"})
S2Reqs == StageReqs({"formal answering", "formal answering (fallback)"})
FallbackReqs == StageReqs({"formal answering (fallback)"})

\* how many times the run printed event e
Count(e) == Cardinality({i \in 1..Len(console) : console[i].ev = e})

\* the response of request r parsed to a JSON object
ParsedToObject(r) == r.outcome = "ok" /\ parse_json_strict(TextOf(r.content)) = "object"
\* a response arrived and parse_json_strict made nothing of it
Unparseable(r) == r.outcome = "ok" /\ parse_json_strict(TextOf(r.content)) = None
NetworkFailure(r) == r.outcome \in ErrorKinds

AllRequests(P(_)) == \A i \in 1..Len(requests) : P(requests[i])

\* the review of this run was parsed (to a dict)
ReviewParsed == review # NoReview

----------------------------------------------------------------------------
(* C1 *)

\* C1: no exception leaves send_to_deepseek_pipeline, whatever the attempts'
\* outcomes; stated on the case the claim names: every attempt of the run
\* failed at the network level (no response text was ever received).
C1_NoExceptionLeavesPipeline ==
    (retry_attempts >= 1 /\ AllRequests(NetworkFailure)) => pc # "raised"

----------------------------------------------------------------------------
(* C2 *)

\* C2 as claimed: in either mode, when every attempt returned an unparseable
\* payload the run returns normally, reports failure exactly once and has
\* issued exactly retry_attempts requests.
C2_ExactlyNRequestsEitherMode ==
    (Done /\ retry_attempts >= 1 /\ requests # <<>> /\ AllRequests(Unparseable))
        => /\ pc = "returned"
           /\ Len(requests) = retry_attempts
           /\ Count("answer_parse_failed") + Count("preflight_parse_failed") = 1

\* C2 amended: when every attempt returned an unparseable payload the run
\* returns normally; a single-stage run has issued exactly retry_attempts
\* requests and printed the parse-failure panel once; a multi-stage run has
\* issued retry_attempts stage-1 requests and one stage-2 request, and printed
\* the stage-1 parse-failure notice once and the answer parse-failure panel once.
C2_UnparseableRunDegradesOnce ==
    (Done /\ requests # <<>> /\ AllRequests(Unparseable))
        => /\ pc = "returned"
           /\ exc = None
           /\ Count("answer_parse_failed") = 1
           /\ Count("formal_answer") = 0
           /\ IF stage_mode = "single"
              THEN /\ Len(requests) = retry_attempts
                   /\ Count("preflight_parse_failed") = 0
              ELSE /\ Len(S1Reqs) = retry_attempts
                   /\ Len(S2Reqs) = 1
                   /\ Len(requests) = retry_attempts + 1
                   /\ Count("preflight_parse_failed") = 1

C2_Witness ==
    /\ Done
    /\ stage_mode = "multi"
    /\ retry_attempts = 2
    /\ Len(requests) = 3
    /\ AllRequests(Unparseable)

----------------------------------------------------------------------------
(* C3 *)

\* the review's suggest_thinking_length is a number of at least 128
LongThinking == /\ review.suggest_thinking_length.t = "int"
                /\ review.suggest_thinking_length.v >= 128

----------------------------------------------------------------------------
(* C4 *)

\* C4: when no stage-1 attempt yields a parseable review the run goes on to
\* stage 2 with the raw text as the question, no options, choice_type "none",
\* and the stage-2 request is sent to the reasoning model.
C4_DegradedReviewAnswersOnReasoningTier ==
    (/\ stage_mode = "multi"
     /\ S1Reqs # <<>>
     /\ Count("preflight_parse_failed") = 1
     /\ reasoning_model # fast_model
     /\ S2Reqs # <<>>)
        => /\ answer_payload.question = text
           /\ answer_payload.options = <<>>
           /\ answer_payload.choice_type = "none"
           /\ S2Reqs[1].model = reasoning_model

----------------------------------------------------------------------------
(* C5 *)

\* C5: a multi-stage run whose parsed review has a content_type other than
\* "question" ends with the non-question summary and issues no stage-2
\* request; if the first stage-1 attempt parsed, the run issued one request.
C5_NonQuestionEndsWithoutStage2 ==
    (/\ stage_mode = "multi"
     /\ ReviewParsed
     /\ review.content_type \notin {"question", None})
        => /\ pc = "returned"
           /\ Count("non_question_summary") = 1
           /\ Count("formal_answer") = 0
           /\ Count("stage2") = 0
           /\ S2Reqs = <<>>
           /\ ParsedToObject(requests[1]) => Len(requests) = 1

C5_Witness ==
    /\ stage_mode = "multi"
    /\ ReviewParsed
    /\ review.content_type = "non_question"
    /\ pc = "returned"
    /\ Len(requests) = 1

----------------------------------------------------------------------------
(* C6 *)

\* C6: when the answering model is the reasoning model (not the fast one) and
\* its request times out, exactly one more stage-2 request follows, on the fast
\* model, and a parseable response to it is printed as the answer; no fallback
\* request is issued when the answering model is the fast model, so a run
\* issues at most two stage-2 requests.
C6_TimeoutFallsBackOnceToFast ==
    /\ Len(S2Reqs) <= 2
    /\ (pc = "fallback" \/ FallbackReqs # <<>>)
          => /\ answer_model # fast_model
             /\ S2Reqs[1].stage = "formal answering"
             /\ S2Reqs[1].model = answer_model
             /\ Len(FallbackReqs) = (IF pc = "fallback" THEN 0 ELSE 1)
    /\ (/\ stage_mode = "multi"
        /\ S2Reqs # <<>>
        /\ answer_model = reasoning_model
        /\ reasoning_model # fast_model
        /\ S2Reqs[1].outcome = "timeout")
          => \/ pc = "fallback" /\ Len(S2Reqs) = 1 /\ answer_payload.model = fast_model
             \/ /\ Len(S2Reqs) = 2
                /\ S2Reqs[2].stage = "formal answering (fallback)"
                /\ S2Reqs[2].model = fast_model
                /\ pc = "returned"
                /\ ParsedToObject(S2Reqs[2])
                      => /\ Count("formal_answer") = 1
                         /\ console[Len(console) - 1] =
                                Ev("formal_answer", S2Reqs[2].content)

C6_Witness ==
    /\ stage_mode = "multi"
    /\ review.recommended_model = "reasoner"
    /\ review.suggest_thinking_length = Len0(128)
    /\ Len(S2Reqs) = 2
    /\ S2Reqs[1].model = ReasonerModel
    /\ S2Reqs[1].outcome = "timeout"
    /\ S2Reqs[2].model = ChatModel
    /\ ParsedToObject(S2Reqs[2])
    /\ pc = "returned"
    /\ Count("formal_answer") = 1

----------------------------------------------------------------------------
(* C7 *)

StageGroups == {{"preprocessing"}, {"single-stage"},
                {"formal answering", "formal answering (fallback)"}}

\* C7: every stage that a run entered was re-attempted until one of its
\* responses parsed to a JSON object or retry_attempts attempts of that stage
\* were made.
C7_EveryStageRetriedUntilParsed ==
    pc = "returned"
        => \A g \in StageGroups :
              StageReqs(g) # <<>>
                 => \/ \E i \in 1..Len(StageReqs(g)) : ParsedToObject(StageReqs(g)[i])
                    \/ Len(StageReqs(g)) >= retry_attempts

----------------------------------------------------------------------------
(* C8 *)

\* the model the claim expects for attempt k of a single-stage run
C8_ExpectedModel(k) ==
    IF k = 1 THEN single_stage_model
    ELSE IF \/ single_stage_model = fast_model
            \/ \E j \in 1..(k - 1) : requests[j].outcome = "timeout"
         THEN fast_model
         ELSE single_stage_model

\* C8: in a single-stage run attempt 1 uses the configured model and attempt
\* k+1 uses the fast model iff the configured model is the fast model or one of
\* the attempts 1..k timed out; other failures and unparseable responses never
\* change the model, and the model never switches back.
C8_SingleStageModelPerAttempt ==
    stage_mode = "single"
        => /\ \A k \in 1..Len(requests) :
                 /\ requests[k].stage = "single-stage"
                 /\ requests[k].model = C8_ExpectedModel(k)
           /\ pc = "single" => current_model = C8_ExpectedModel(Len(requests) + 1)

C8_Witness ==
    /\ stage_mode = "single"
    /\ single_stage_model = ReasonerModel
    /\ fast_model = ChatModel
    /\ Len(requests) = 3
    /\ requests[1].outcome = "timeout"
    /\ requests[2].outcome = "network"
    /\ requests[2].model = ChatModel
    /\ requests[3].model = ChatModel

----------------------------------------------------------------------------
(* C9 *)

\* C9: after every update, a topic recorded in topic_counts is in
\* related_topics iff its count is at least 10% of topic_total_count.
C9_RelatedIffTenPercent ==
    /\ related_topics \subseteq DOMAIN topic_counts
    /\ \A t \in DOMAIN topic_counts :
          t \in related_topics <=> 10 * topic_counts[t] >= topic_total_count

C9_Witness ==
    /\ topic_total_count > 10
    /\ \E t \in DOMAIN topic_counts : t \notin related_topics /\ topic_counts[t] = 1
    /\ \E t \in DOMAIN topic_counts : t \in related_topics

----------------------------------------------------------------------------
(* C10 *)

C10_Consistent ==
    /\ topic_total_count = SumCounts(topic_counts, DOMAIN topic_counts)
    /\ related_topics \subseteq DOMAIN topic_counts
    /\ \A t \in DOMAIN topic_counts : topic_counts[t] >= 1

C10_Step ==
    /\ DOMAIN topic_counts \subseteq DOMAIN topic_counts'
    /\ \A t \in DOMAIN topic_counts : topic_counts'[t] >= topic_counts[t]
    /\ topic_total_count' >= topic_total_count
    /\ C10_Consistent'

\* C10: counts and the total never decrease, no key leaves topic_counts,
\* the total is the sum of the counts, and every related topic is a key of
\* topic_counts with a count of at least 1.
C10_CountsOnlyGrowAndAddUp == C10_Consistent /\ [][C10_Step]_vars

C10_Witness ==
    /\ topic_total_count > 10
    /\ \E t \in DOMAIN topic_counts : t \notin related_topics
    /\ \E t \in related_topics : topic_counts[t] >= 2

----------------------------------------------------------------------------
(* C11 *)

NoDuplicates(s) == \A i, j \in 1..Len(s) : s[i] = s[j] => i = j

Entries(s) == {s[i] : i \in 1..Len(s)}

C11_State ==
    /\ NoDuplicates(background_knowledge)
    /\ "" \notin Entries(background_knowledge)
    \* whatever the size reached, a background that is not blank and not yet
    \* present is appended
    /\ \A b \in RawBackgrounds :
          (Strip(b) # "" /\ Strip(b) \notin Entries(background_knowledge))
              => AppendBackground(background_knowledge, b)
                     = Append(background_knowledge, Strip(b))

C11_Step ==
    /\ Len(background_knowledge') \in
           {Len(background_knowledge), Len(background_knowledge) + 1}
    /\ SubSeq(background_knowledge', 1, Len(background_knowledge)) = background_knowledge
    /\ C11_State'

----------------------------------------------------------------------------
(* C12 *)

\* C12: after k calls of the update with the same one-topic list [t] and the
\* same background b on an empty store, background_knowledge holds b (stripped)
\* exactly once, topic_counts[t] = k, topic_total_count = k and t is in
\* related_topics; a blank t or b is skipped and leaves its part empty.
C12_RepeatedUpdate ==
    \A t \in RawTopics, b \in RawBackgrounds :
        (calls # <<>> /\ calls[1] = UpdateCall(<<t>>, b))
            => /\ background_knowledge =
                      (IF Strip(b) = "" THEN <<>> ELSE <<Strip(b)>>)
               /\ IF Strip(t) = ""
                  THEN /\ topic_counts = EmptyDict
                       /\ topic_total_count = 0
                       /\ related_topics = {}
                  ELSE /\ topic_counts = [x \in {Strip(t)} |-> Len(calls)]
                       /\ topic_total_count = Len(calls)
                       /\ related_topics = {Strip(t)}

C12_Witness ==
    /\ Len(calls) = 3
    /\ calls[1] = UpdateCall(<<" t1">>, " b1")
    /\ background_knowledge = <<"b1">>
    /\ topic_counts["t1"] = 3
    /\ topic_total_count = 3

----------------------------------------------------------------------------
(* C13 *)

C13_Step ==
    \A x \in DOMAIN topic_counts :
        (topic_counts[x] = 1 /\ topic_total_count = 10)
            => /\ x \in related_topics
               /\ (topic_total_count' = 11 /\ topic_counts'[x] = 1)
                      => x \notin related_topics'

\* C13: a topic counted once when topic_total_count is 10 is in
\* related_topics; when an update then records one mention of another topic
\* (total 11, the count still 1) the topic is no longer in related_topics
\* after that update.
C13_RetainedAtTenEvictedAtEleven == [][C13_Step]_vars

C13_Witness ==
    /\ topic_total_count = 11
    /\ \E x \in DOMAIN topic_counts : topic_counts[x] = 1 /\ x \notin related_topics
    /\ \E y \in related_topics : topic_counts[y] = 10

----------------------------------------------------------------------------
(* C14 *)

\* this step parsed the review of the run
C14_ReviewArrives == review = NoReview /\ review' # NoReview

C14_State ==
    /\ ReviewParsed => updates = 1
    /\ ~ReviewParsed => updates = 0
    /\ S2Reqs # <<>> => (ReviewParsed <=> updates = 1)

C14_Step ==
    /\ C14_ReviewArrives
          => /\ updates' = 1
             /\ S2Reqs' = <<>>
             /\ Memory' = update_memory(Memory, review'.related_topics,
                                        review'.background_knowledge)
    /\ ~C14_ReviewArrives
          => /\ UNCHANGED memvars
             /\ updates' = updates \/ (updates' = 0 /\ requests' = <<>>)
    /\ C14_State'

\* C14: in both modes the step that parses the review of a run applies the
\* memory update with that review's topics and background, once, before any
\* stage-2 request exists; no other step of the run touches the memory, so a
\* run with a parsed review has made exactly one update when it returns (the
\* early return for non-question content included) and a run without one none.
C14_UpdateOncePerParsedReview == C14_State /\ [][C14_Step]_vars

C14_Witness ==
    /\ stage_mode = "single"
    /\ ReviewParsed
    /\ review.content_type = "non_question"
    /\ pc = "returned"
    /\ updates = 1
    /\ runs = 2
    /\ topic_counts["t1"] = 2
    /\ background_knowledge = <<"b1">>

----------------------------------------------------------------------------
(* C15 *)

\* C15: whatever the text, a result of parse_json_strict that its callers take
\* for a parsed review or answer (a truthy one) is a JSON object.
C15_TruthyResultIsObject ==
    \A i \in 1..Len(calls) : Truthy(calls[i].ret) => calls[i].ret = "object"

----------------------------------------------------------------------------
(* C16 *)

\* the positions of the first '{' and of the last '}' of a text that has both
C16_FirstOpen(t) ==
    CHOOSE i \in 1..Len(t) : t[i] = "{" /\ \A j \in 1..Len(t) : t[j] = "{" => i <= j

C16_LastClose(t) ==
    CHOOSE i \in 1..Len(t) : t[i] = "}" /\ \A j \in 1..Len(t) : t[j] = "}" => j <= i

\* there is a '{' and the last '}' comes after the first '{'
C16_HasBraces(t) ==
    /\ \E i \in 1..Len(t) : t[i] = "{"
    /\ \E i \in 1..Len(t) : t[i] = "}"
    /\ C16_FirstOpen(t) < C16_LastClose(t)

C16_Braces(t) == SubSeq(t, C16_FirstOpen(t), C16_LastClose(t))

\* C16: an empty text gives null; a text that is JSON as a whole gives its
\* value; any other text gives the value of the substring from its first '{' to
\* its last '}' when there is such a substring and it is JSON, with or without
\* a fence marker in the text, and null otherwise.
C16_TiersInOrder ==
    \A i \in 1..Len(calls) :
        LET t == calls[i].text
            ret == calls[i].ret
        IN  IF t = <<>> THEN ret = None
            ELSE IF IsJson(t) THEN ret = Loads(t)
            ELSE IF C16_HasBraces(t) /\ IsJson(C16_Braces(t))
            THEN ret = Loads(C16_Braces(t))
            ELSE ret = None

C16_Witness ==
    /\ calls # <<>>
    /\ calls[1].text = <<"{", "{", "1", "}", "}", "x">>
    /\ calls[1].ret = "object"

----------------------------------------------------------------------------
(* C17 *)

\* the kind the claim gives for what the network call raised
C17_Kind(x) ==
    CASE x = "ReadTimeout" -> "timeout"
      [] x = "ConnectError" -> "network"
      [] x = "HTTPStatusError" -> "http"
      [] x = "JSONDecodeError" -> "unknown"
      [] x = "RuntimeError" -> "unknown"

\* C17: every call of _send_request made one network call and returned; when
\* the network call timed out, failed at connection level, met a non-2xx status
\* or raised anything else (a body that is not JSON included) the call returned
\* the failure value and _last_error_kind is timeout, network, http or unknown;
\* after a 2xx response with a JSON body it returned the data and
\* _last_error_kind is none.
C17_OneCallClassified ==
    /\ Len(requests) = Len(calls)
    /\ calls # <<>> => last_error_kind = calls[Len(calls)].last_error_kind
    /\ \A i \in 1..Len(calls) :
          LET c == calls[i]
          IN  IF c.outcome.raised = None
              THEN /\ c.ret = [ok |-> TRUE, content |-> c.outcome.content]
                   /\ c.last_error_kind = None
              ELSE /\ ~c.ret.ok
                   /\ c.last_error_kind = C17_Kind(c.outcome.raised)

C17_Witness ==
    /\ Len(calls) = 2
    /\ calls[1].outcome.raised = "ReadTimeout"
    /\ calls[1].last_error_kind = "timeout"
    /\ calls[2].outcome.raised = None
    /\ calls[2].ret.ok
    /\ last_error_kind = None

----------------------------------------------------------------------------
(* C18 *)

\* C18: a stage-1 request is sent with no override, so with 120 seconds when
\* the model name contains "reason" and with 90 seconds otherwise; every
\* stage-2 request, the fallback included, and every single-stage attempt is
\* sent with the configured formal timeout, whatever its model.
C18_TimeoutPerRequest ==
    \A i \in 1..Len(requests) :
        LET r == requests[i]
        IN  IF r.stage = "preprocessing"
            THEN r.timeout = (IF r.model = ReasonerModel THEN 120 ELSE 90)
            ELSE /\ r.stage \in {"formal answering", "formal answering (fallback)",
                                "single-stage"}
                 /\ r.timeout = FormalTimeout

C18_Witness ==
    /\ stage_mode = "multi"
    /\ fast_model = ReasonerModel
    /\ Len(S1Reqs) = 2
    /\ S1Reqs[1].timeout = 120
    /\ Len(S2Reqs) = 1
    /\ S2Reqs[1].model = ReasonerModel
    /\ S2Reqs[1].timeout = FormalTimeout

----------------------------------------------------------------------------
(* C19 *)

\* the requests of the step that is to give the answer
C19_AnswerReqs == IF stage_mode = "single" THEN requests ELSE S2Reqs

\* the responses received in that step
C19_Received == SelectSeq(C19_AnswerReqs, LAMBDA r : r.outcome = "ok")

\* none of them was taken for a parsed answer
C19_NoParsedAnswer ==
    \A i \in 1..Len(C19_Received) :
        ~Truthy(parse_json_strict(TextOf(C19_Received[i].content)))

\* C19: a run that has returned after its answer step (multi-stage) or its
\* single-stage step ended with no parsed answer has printed the parse-failed
\* report once, and the report shows the last response text received in that
\* step when there is one: no run returns without a failure outcome.
C19_FailedReportedWhenNoAnswer ==
    (/\ pc = "returned"
     /\ retry_attempts >= 1
     /\ C19_AnswerReqs # <<>>
     /\ C19_NoParsedAnswer)
        => /\ Count("answer_parse_failed") = 1
           /\ C19_Received # <<>>
                 => \E i \in 1..Len(console) :
                       console[i] = Ev("answer_parse_failed",
                                       C19_Received[Len(C19_Received)].content)

----------------------------------------------------------------------------
(* C20 *)

\* the topic mentions that the update of thread w is to record
C20_Mentions(w) ==
    Cardinality({i \in 1..Len(workers[w].topics) : Strip(workers[w].topics[i]) # ""})

\* C20: when the memory updates of two runs on the same client have both
\* completed, no increment is lost: topic_total_count is the number of topic
\* mentions of the two updates and the sum of topic_counts.
C20_NoLostUpdate ==
    (\A w \in Workers : workers[w].pc = "done")
        => /\ topic_total_count = C20_Mentions("w1") + C20_Mentions("w2")
           /\ topic_total_count = SumCounts(topic_counts, DOMAIN topic_counts)

----------------------------------------------------------------------------
(* C21 *)

\* C21: every preprocessing request of a multi-stage run names the fast-tier
\* model, on the first attempt and on every retry, whatever failed before it.
C21_Stage1AlwaysFastModel ==
    \A i \in 1..Len(S1Reqs) : S1Reqs[i].model = fast_model

\* three preprocessing attempts after two different failures, with a reasoning
\* tier that is another model
C21_Witness ==
    /\ stage_mode = "multi"
    /\ reasoning_model # fast_model
    /\ Len(S1Reqs) = 3
    /\ S1Reqs[1].outcome = "timeout"
    /\ S1Reqs[2].outcome = "http"
    /\ C21_Stage1AlwaysFastModel

----------------------------------------------------------------------------
(* C22 *)

\* C22: a single-stage run whose parsed review has a content type other than
\* "question" ends after the review summary: the final section of the payload,
\* whatever it holds, is neither read nor reported.
C22_NonQuestionSkipsFinal ==
    (/\ stage_mode = "single"
     /\ ReviewParsed
     /\ review.content_type \notin {None, "question"})
    => /\ pc = "returned"
       /\ Count("non_question_summary") = 1
       /\ Count("formal_answer") = 0
       /\ Count("preflight_results") = 0
       /\ \A i \in 1..Len(console) : console[i].arg # review.final
       /\ console[Len(console) - 1].ev = "non_question_summary"

\* a non-question payload that does carry an answer in its final section
C22_Witness ==
    /\ stage_mode = "single"
    /\ review.content_type = "non_question"
    /\ review.final = "answer"
    /\ pc = "returned"
    /\ Count("formal_answer") = 0

----------------------------------------------------------------------------
(* C23 *)

\* the configured values that read "single" once trimmed and case-folded
C23_ConfiguredSingle == calls[1].analysis_stage_mode \in {"single", " Single "}

\* the flow a run is in, read off its position and its requests
C23_InSingleFlow ==
    /\ pc \notin {"stage1", "stage2", "fallback"}
    /\ AllRequests(LAMBDA r : r.stage = "single-stage")
    /\ current_model # Unbound
    /\ Count("stage2") = 0

C23_InMultiFlow ==
    /\ pc # "single"
    /\ AllRequests(LAMBDA r : r.stage # "single-stage")
    /\ current_model = Unbound
    /\ Count("stage2") = 1 \/ pc \in {"stage1", "raised"} \/ ~IsQuestion(content_type)

C23_State ==
    /\ stage_mode = (IF C23_ConfiguredSingle THEN "single" ELSE "multi")
    /\ runs >= 1 => (C23_InSingleFlow <=> C23_ConfiguredSingle)
    /\ runs >= 1 => (C23_InMultiFlow <=> ~C23_ConfiguredSingle)

\* C23: the stage mode is fixed at construction. A run follows the single-stage
\* flow exactly when the configured mode, trimmed and case-folded, is "single";
\* a missing or any other value gives the multi-stage flow; no run changes the mode.
C23_ModeFixedAtConstruction ==
    [][/\ C23_State /\ C23_State'
       /\ stage_mode' = stage_mode]_vars

\* the second run of a client configured with " Single ", and of one with "both"
C23_Witness ==
    /\ runs = 2
    /\ calls[1].analysis_stage_mode = " Single "
    /\ pc = "returned"
    /\ Len(requests) = 1
    /\ requests[1].stage = "single-stage"

----------------------------------------------------------------------------
(* C24 *)

\* the topics as they are stored
C24_Topics == {Strip(t) : t \in RawTopics} \ {""}

\* the counts a topic can be evicted with while the total is within MaxTotal
C24_Counts == 1..((MaxTotal - 1) \div 10)

\* x is out of related_topics and this step records no mention of it
C24_StaysOut ==
    \A x \in DOMAIN topic_counts :
        (x \notin related_topics /\ topic_counts'[x] = topic_counts[x])
            => x \notin related_topics'

\* C24: a related topic that is not mentioned again, while updates keep
\* recording mentions of other topics, is eventually removed from
\* related_topics; once out, it stays out until an update mentions it again.
C24_EventuallyEvicted ==
    /\ \A x \in C24_Topics : \A c \in C24_Counts :
          (x \in related_topics /\ topic_counts[x] = c)
              ~> (x \notin related_topics \/ topic_counts[x] > c)
    /\ [][C24_StaysOut]_vars

\* a topic mentioned once was evicted while another topic took every later mention
C24_Witness ==
    /\ topic_total_count >= 11
    /\ "t1" \in DOMAIN topic_counts
    /\ topic_counts["t1"] = 1
    /\ "t1" \notin related_topics
    /\ "t2" \in related_topics

----------------------------------------------------------------------------
(* C25 *)

RECURSIVE C25_SumTimeouts(_)
C25_SumTimeouts(rs) ==
    IF rs = <<>> THEN 0 ELSE Head(rs).timeout + C25_SumTimeouts(Tail(rs))

\* the timeout of a stage-1 attempt, and the largest timeout of any attempt of
\* the mode
C25_Stage1Timeout == IF HasReason(fast_model) THEN 120 ELSE 90

C25_LargestTimeout ==
    IF stage_mode = "single" THEN FormalTimeout
    ELSE IF C25_Stage1Timeout > FormalTimeout THEN C25_Stage1Timeout ELSE FormalTimeout

\* C25 as claimed: in a run where every request blocks until its timeout, the
\* timeouts of all requests issued add up to at most retry_attempts times the
\* largest per-attempt timeout.
C25_WithinAttemptsTimesLargest ==
    (/\ retry_attempts >= 1
     /\ AllRequests(LAMBDA r : r.outcome = "timeout"))
    => C25_SumTimeouts(requests) <= retry_attempts * C25_LargestTimeout

\* C25, amended: the timeouts of the requests of a single-stage run add up to
\* at most retry_attempts times the answer timeout; those of a multi-stage run
\* to at most retry_attempts times the stage-1 timeout, plus the answer timeout
\* once for the stage-2 request and once more for the fallback when the
\* reasoning model is not the fast model.
C25_WithinStageSum ==
    C25_SumTimeouts(requests) <=
        IF stage_mode = "single"
        THEN retry_attempts * FormalTimeout
        ELSE retry_attempts * C25_Stage1Timeout
             + FormalTimeout * (IF reasoning_model # fast_model THEN 2 ELSE 1)

\* two stage-1 attempts timed out, the third brought the review, the stage-2
\* request and the fallback timed out: the bound is met
C25_Witness ==
    /\ Done
    /\ stage_mode = "multi"
    /\ retry_attempts = 3
    /\ Len(requests) = 5
    /\ \A i \in {1, 2, 4, 5} : requests[i].outcome = "timeout"
    /\ C25_SumTimeouts(requests) = 3 * C25_Stage1Timeout + 2 * FormalTimeout
    /\ C25_SumTimeouts(requests) > retry_attempts * C25_LargestTimeout

----------------------------------------------------------------------------
(* C26 *)

\* one of the four memory fields differs after the step
C26_MemoryChanged ==
    \/ background_knowledge' # background_knowledge
    \/ related_topics' # related_topics
    \/ topic_counts' # topic_counts
    \/ topic_total_count' # topic_total_count

C26_Step ==
    /\ C26_MemoryChanged
          => /\ pc \in {"stage1", "single"}
             /\ ~ReviewParsed /\ ReviewParsed'
             /\ Memory' = update_memory(Memory, review'.related_topics,
                                        review'.background_knowledge)
    /\ pc \in {"stage2", "fallback"} => ~C26_MemoryChanged
    /\ pc \in {"idle", "returned", "raised"} => ~C26_MemoryChanged
    /\ ~ReviewParsed' => ~C26_MemoryChanged

\* C26: background_knowledge, related_topics, topic_counts and
\* topic_total_count change only by the memory update of a parsed review: a step
\* of a run in which no review is parsed leaves all four as they were, and so do
\* the stage-2 request, the fallback request and the parsing of the answer.
C26_MemoryChangedOnlyByUpdate == [][C26_Step]_vars

\* the second run, with no review parsed, went through stage 2 and returned with
\* what the first run had recorded
C26_Witness ==
    /\ runs = 2
    /\ pc = "returned"
    /\ ~ReviewParsed
    /\ S2Reqs # <<>>
    /\ topic_total_count = 2
    /\ background_knowledge = <<"b1">>

----------------------------------------------------------------------------
(* C27 *)

\* C27: the fallback request of stage 2 is issued only when the stage-2
\* request on the reasoning tier ended in a timeout; after a network, HTTP or
\* unknown failure the run ends without a fallback request.
C27_FallbackOnlyAfterTimeout ==
    (pc = "fallback" \/ FallbackReqs # <<>>)
        => /\ S2Reqs # <<>>
           /\ S2Reqs[1].outcome = "timeout"

----------------------------------------------------------------------------
(* C28 *)

\* C28: a parsed question review whose suggest_thinking_length is not numeric
\* counts as below the threshold: the multi-stage run selects the fast model
\* and goes on to the stage-2 request, and nothing is raised.
C28_NonNumericLengthSelectsFast ==
    (/\ stage_mode = "multi"
     /\ ReviewParsed
     /\ Lower(Or(review.content_type, "question")) = "question"
     /\ review.suggest_thinking_length = NonNumericLen)
    => /\ pc # "raised"
       /\ answer_model = fast_model
       /\ pc = "stage2" \/ S2Reqs # <<>>

----------------------------------------------------------------------------
(* C29 *)

\* the requests of the retry loop of the run: stage 1, or the single stage
C29_LoopReqs == StageReqs({"preprocessing", "single-stage"})

\* the loop of the run is over
C29_LoopOver == runs >= 1 /\ pc \notin {"stage1", "single"}

\* the attempts whose response parsed to a JSON object
C29_ObjectAt == {i \in 1..Len(C29_LoopReqs) : ParsedToObject(C29_LoopReqs[i])}

\* C29: the stage-1 loop and the single-stage loop issue as many requests as
\* the index of the first attempt whose response parses to a JSON object, or
\* retry_attempts requests when no attempt does; no request follows a parseable
\* response, and a network failure or an unparseable response takes one attempt.
C29_RequestsUpToFirstObject ==
    /\ \A i \in C29_ObjectAt : i = Len(C29_LoopReqs)
    /\ Len(C29_LoopReqs) <= retry_attempts
    /\ C29_LoopOver =>
          Len(C29_LoopReqs) = (IF C29_ObjectAt # {} THEN CHOOSE i \in C29_ObjectAt : TRUE
                               ELSE retry_attempts)

----------------------------------------------------------------------------
(* C30 *)

\* the retry lines of the run, in order: the j-th one opens attempt j + 1
C30_Retries == SelectSeq(console, LAMBDA l : l.ev = "retrying")

\* the reason texts of the four error kinds
C30_KindText(kind) ==
    CASE kind = "timeout" -> "timeout"
      [] kind = "network" -> "network error"
      [] kind = "http" -> "HTTP error"
      [] kind = "unknown" -> "unknown error"

C30_KindTexts == {C30_KindText(k) : k \in ErrorKinds}

\* the reason of every retry line is the kind of the attempt just before it
C30_ReasonOfPreviousAttempt ==
    /\ Len(C30_Retries) <= Len(C29_LoopReqs)
    /\ \A j \in 1..Len(C30_Retries) :
          NetworkFailure(C29_LoopReqs[j])
              => C30_Retries[j].arg = C30_KindText(C29_LoopReqs[j].outcome)

\* C30: the reason logged on retry attempt k > 1 of the stage-1 loop or the
\* single-stage loop is the error kind observed for attempt k - 1 of that loop,
\* never one left over from before; after an attempt whose response arrived
\* and was unparseable the reason names that failure: it is neither one of the
\* four request error kinds nor the placeholder for no known reason.
C30_RetryReasonIsObservedFailure ==
    /\ C30_ReasonOfPreviousAttempt
    /\ \A j \in 1..Len(C30_Retries) :
          ~NetworkFailure(C29_LoopReqs[j])
              => C30_Retries[j].arg \notin C30_KindTexts \cup {"unknown"}

----------------------------------------------------------------------------
(* C31 *)

\* the run is inside the pipeline, waiting on a network call
C31_Running == pc \in {"stage1", "stage2", "fallback", "single"}

C31_RequestBound ==
    Len(requests) <= (IF stage_mode = "single" THEN retry_attempts
                      ELSE retry_attempts + 2)

\* C31: when every network call returns, a pipeline run terminates, and it
\* issues at most retry_attempts requests in single-stage mode and at most
\* retry_attempts + 2 requests in multi-stage mode.
C31_RunTerminatesWithinBound ==
    /\ []C31_RequestBound
    /\ C31_Running ~> Done

\* a multi-stage run that used every stage-1 attempt, the stage-2 request and
\* the fallback, and is over
C31_Witness ==
    /\ Done
    /\ stage_mode = "multi"
    /\ retry_attempts = MaxRetry
    /\ Len(requests) = retry_attempts + 2

----------------------------------------------------------------------------
(* C32 *)

\* the worker threads that exist, and those inside the selection callback
C32_Alive == {w \in Workers : threads[w].pc # "none"}
C32_InCallback == {w \in Workers : threads[w].pc = "callback"}

C32_State ==
    /\ Cardinality(C32_InCallback) <= 1
    /\ Cardinality(C32_Alive) <= 1
    /\ C32_Alive # {} => processing

\* the step of _on_click that finds a selection being processed
C32_Step ==
    (mouse.pc = "processing" /\ processing /\ mouse' # mouse)
        => /\ mouse' = IdleMouse
           /\ first_point' = first_point
           /\ threads' = threads

\* C32: under every interleaving of clicks, key events and worker steps at
\* most one worker thread is executing the selection callback, and a
\* Ctrl+left-click handled while a selection is being processed starts no
\* worker and leaves first_point as it is.
C32_SingleFlight == C32_State /\ [][C32_Step /\ C32_State']_vars

\* a Ctrl+left-click has reached the flag test while a worker is in the callback
C32_Witness ==
    /\ C32_InCallback # {}
    /\ mouse.pc = "processing"
    /\ ctrl_down
    /\ processing

----------------------------------------------------------------------------
(* C33 *)

\* every worker was started with two points
C33_TwoPoints ==
    \A w \in Workers :
        threads[w].pc # "none"
            => threads[w].first_point # None /\ threads[w].second_point # None

\* once a Ctrl release has been handled and no click is being handled, no
\* first point of before the release is kept for a later pair
C33_ReleaseClears ==
    (~ctrl_down /\ keyboard = "idle" /\ mouse.pc = "idle") => first_point = None

\* C33: the selection callback is invoked with two non-null points only, the
\* first and the second left-click taken while Ctrl was held with no Ctrl
\* release between them, under every interleaving of the keyboard listener
\* thread with the mouse listener thread.
C33_CallbackGetsTwoHeldClicks == C33_TwoPoints /\ C33_ReleaseClears

----------------------------------------------------------------------------
(* C34 *)

\* the step in which worker w leaves its finally clause
C34_Finishes(w) == threads[w].pc = "finally" /\ threads'[w].pc = "none"

C34_Step == \A w \in Workers : C34_Finishes(w) => ~processing'

\* the flag is set only while the mouse thread is about to start the worker or
\* a worker exists that has yet to clear it
C34_FlagHasOwner ==
    processing => (mouse.pc = "start" \/ \E w \in Workers : threads[w].pc # "none")

\* C34: when the selection callback of a worker finishes, by return or by an
\* exception, _processing is cleared; so a started selection eventually lets
\* clicks through again and a later Ctrl+two-click selection is processed.
C34_FlagClearedWhenCallbackEnds ==
    /\ [][C34_Step]_vars
    /\ []C34_FlagHasOwner
    /\ processing ~> ~processing
    /\ \A w \in Workers : (threads[w].pc = "finally") ~> ~processing

\* the callback of a selection with two points has raised and the flag is
\* still set
C34_Witness ==
    \E w \in Workers :
        /\ threads[w].pc = "finally"
        /\ threads[w].outcome = "raised"
        /\ threads[w].first_point # None
        /\ processing

----------------------------------------------------------------------------
(* C35 *)

\* the selection c is large enough and OCR found text in it
C35_Eligible(c) ==
    LET a == XY(c.start)
        b == XY(c.end)
    IN  /\ (a[1] - b[1] >= 5 \/ b[1] - a[1] >= 5)
        /\ (a[2] - b[2] >= 5 \/ b[2] - a[2] >= 5)
        /\ c.text \notin {None, "", "  "}

\* a step of process_selection: no pipeline run is in progress before it
C35_Step ==
    (pc \in {"idle", "returned", "raised"})
        => /\ runs' \in {runs, runs + 1}
           /\ runs' = runs + 1 <=> C35_Eligible(calls'[1])
           /\ runs' = runs + 1 => text' = calls'[1].text
           /\ runs' = runs => /\ UNCHANGED <<requests, memvars, pc, console>>
                              /\ ~C35_Eligible(calls'[1])

\* C35: process_selection calls the analysis pipeline at most once per
\* selection, and only for a rectangle at least 5 pixels wide and 5 pixels high
\* whose OCR text is not blank; otherwise it returns with no pipeline call: no
\* request is issued and the memory is unchanged.
C35_PipelineOnlyForEligibleSelection == [][C35_Step]_vars

\* after a run that recorded a topic, a selection 9 wide and 4 high was dropped
C35_Witness ==
    /\ calls # <<>>
    /\ calls[1].start = "p1"
    /\ calls[1].end = "p4"
    /\ runs = 1
    /\ pc = "returned"
    /\ topic_total_count > 0

----------------------------------------------------------------------------
(* C36 *)

\* when an update has returned with a total above 10, no topic counted once is
\* in related_topics
C36_State ==
    \A x \in DOMAIN topic_counts :
        (topic_counts[x] = 1 /\ topic_total_count > 10) => x \notin related_topics

C36_Step ==
    /\ \A x \in (DOMAIN topic_counts') \ (DOMAIN topic_counts) :
          \* x was mentioned for the first time by this update
          (topic_counts'[x] = 1 /\ topic_total_count' > 10) => x \notin related_topics'
    /\ \A x \in related_topics' \ related_topics :
          \* x entered the active set
          10 * topic_counts'[x] >= topic_total_count'
    /\ C36_State'

\* C36: a topic inserted during an update can be evicted by that same update.
\* Once topic_total_count after the update exceeds 10, a topic whose count is 1,
\* in particular one mentioned for the first time and once, is not in
\* related_topics when the update returns; a topic enters the active set only
\* with a count of at least one tenth of the running total.
C36_InsertedAndEvictedInOneUpdate == C36_State /\ [][C36_Step]_vars

\* at total 12 the topic counted once is out of related_topics
C36_Witness ==
    /\ topic_total_count = 12
    /\ DOMAIN topic_counts = {"t1", "t3"}
    /\ topic_counts["t1"] = 11
    /\ topic_counts["t3"] = 1
    /\ related_topics = {"t1"}

====
